---- MODULE Spec2Model ----
(***************************************************************************)
(* Model of the localisation data synchronisation pipeline of the          *)
(* navigatum server (server/main-api/src/setup/database/data.rs):          *)
(* download_updates decodes the upstream snapshot into DelocalisedValues,  *)
(* load_all_to_db stores them through one sqlx transaction.                *)
(*                                                                         *)
(* A serde_json::Value is a record whose single field is its variant:      *)
(*   [null |-> TRUE], [s |-> "text"], [n |-> 7], [a |-> <<v1, ..>>],       *)
(*   [o |-> [field |-> v, ..]].                                            *)
(***************************************************************************)
EXTENDS Integers, Sequences, FiniteSets, TLC

VARIABLES
    db,         \* committed rows of the tables de and en
    txw,        \* rows written by the open transaction, not yet committed
    txOpen,     \* TRUE while the run's transaction exists
    pc,         \* position of the run
    snapshot,   \* rows of api_data.parquet served to this run
    index,      \* row index of the loop in download_updates
    vals,       \* Vec<DelocalisedValues> built by download_updates / tasks
    task,       \* index of the task load_all_to_db is storing
    result,     \* outcome of the run
    log,        \* statements this run has sent to the database
    pre,        \* db as it was when the run started
    lastSnap,   \* the snapshots of the latest committed runs, as long as they
                \* and every run started since are over one same snapshot
    runs,       \* number of runs started
    aborted,    \* <<the store before the run, whether rows were written>> of a
                \* run a storage error aborted, until a later run commits
    value,      \* argument of a direct call of delocalise / payload of from
    language,   \* language argument of a direct call of delocalise
    ret,        \* value returned by delocalise
    dv,         \* DelocalisedValues returned by from
    dpc,        \* position of the direct call
    sdf,        \* download_status: the DataFrame read from status_data.parquet
    spc,        \* download_status: position
    sret,       \* download_status: the value returned
    coords,     \* route_handler: columns lat, lon of table de, by key
    rargs,      \* route_handler: args.from and args.to
    rfrom,      \* route_handler: local from (result of the first lookup)
    rto,        \* route_handler: local to (result of the second lookup)
    rreq,       \* route_handler: the requests sent to Valhalla
    rresp,      \* route_handler: the HttpResponse returned
    rpc,        \* route_handler: position
    clock,      \* feedback server: chrono::Utc::now().timestamp(), in seconds
    leeway,     \* feedback server: leeway of Validation::default()
    configured, \* feedback server: state.able_to_process_feedback()
    issued,     \* feedback server: the Claims of the tokens handed out
    token_record, \* feedback server: state.token_record
    vcall,      \* feedback server: the validate_token calls in progress
    accepted,   \* feedback server: the tokens validate_token returned None for
    replayed,   \* feedback server: the tokens it returned None for again
    ticks,      \* feedback server: number of clock steps taken
    vresp,      \* feedback server: the latest return of validate_token
    opc,        \* overlapping runs: position of each run
    ovals,      \* overlapping runs: the tasks of each run
    otask,      \* overlapping runs: index of the task each run is storing
    otxw,       \* overlapping runs: rows written by each run's transaction
    oresult,    \* overlapping runs: outcome of each run
    olog,       \* overlapping runs: the statements executed, in order
    cdb,        \* calendar_handler: the tables calendar and rooms
    cargs,      \* calendar_handler: the path id and the query args start, end
    cresults,   \* calendar_handler: local results (QueryResult<Vec<XMLEvent>>)
    curl,       \* calendar_handler: local calendar_url (QueryResult<String>)
    cresp,      \* calendar_handler: the HttpResponse returned, or the panic
    cpc         \* calendar_handler: position

vars == <<db, txw, txOpen, pc, snapshot, index, vals, task, result, log, pre,
          lastSnap, runs, aborted, value, language, ret, dv, dpc,
          sdf, spc, sret, coords, rargs, rfrom, rto, rreq, rresp, rpc,
          clock, leeway, configured, issued, token_record, vcall, accepted,
          replayed, ticks, vresp, opc, ovals, otask, otxw, oresult, olog,
          cdb, cargs, cresults, curl, cresp, cpc>>

pipeVars == <<db, txw, txOpen, pc, snapshot, index, vals, task, result, log,
              pre, lastSnap, runs, aborted>>

callVars == <<value, language, ret, dv, dpc>>

statusVars == <<sdf, spc, sret>>

routeVars == <<coords, rargs, rfrom, rto, rreq, rresp, rpc>>

tokenVars == <<clock, leeway, configured, issued, token_record, vcall,
               accepted, replayed, ticks, vresp>>

overlapVars == <<opc, ovals, otask, otxw, oresult, olog>>

calendarVars == <<cdb, cargs, cresults, curl, cresp, cpc>>

\* the state of the handlers that are not part of a run
handlerVars == <<statusVars, routeVars, tokenVars, overlapVars, calendarVars>>

-----------------------------------------------------------------------------
(* serde_json::Value *)

Null == [null |-> TRUE]
Str(s) == [s |-> s]
Num(n) == [n |-> n]
Arr(a) == [a |-> a]
Obj(o) == [o |-> o]

IsStr(v) == "s" \in DOMAIN v
IsNum(v) == "n" \in DOMAIN v
IsArr(v) == "a" \in DOMAIN v
IsObj(v) == "o" \in DOMAIN v

Languages == {"de", "en"}

\* the mapping with no field
EmptyMap == [k \in {} |-> Null]

-----------------------------------------------------------------------------
(* DelocalisedValues::delocalise *)

\* delocalise leaving out the fields that have no text in the language
RECURSIVE delocalise_SkipsUntranslated(_, _)
delocalise_SkipsUntranslated(v, lang) ==
    IF IsArr(v)
    THEN Arr([i \in DOMAIN v.a |-> delocalise_SkipsUntranslated(v.a[i], lang)])
    ELSE IF IsObj(v)
    THEN IF "de" \in DOMAIN v.o \/ "en" \in DOMAIN v.o
         THEN IF lang \in DOMAIN v.o THEN v.o[lang] ELSE Str("")
         ELSE Obj([k \in {f \in (DOMAIN v.o) \ {"de", "en"} :
                             ~ (/\ IsObj(v.o[f])
                                /\ Languages \cap DOMAIN v.o[f].o # {}
                                /\ lang \notin DOMAIN v.o[f].o)} |->
                       delocalise_SkipsUntranslated(v.o[k], lang)])
    ELSE v

\* delocalise falling back to the other language when the requested is absent
RECURSIVE delocalise_Fallback(_, _)
delocalise_Fallback(v, lang) ==
    IF IsArr(v)
    THEN Arr([i \in DOMAIN v.a |-> delocalise_Fallback(v.a[i], lang)])
    ELSE IF IsObj(v)
    THEN IF "de" \in DOMAIN v.o \/ "en" \in DOMAIN v.o
         THEN IF lang \in DOMAIN v.o THEN v.o[lang]
              ELSE v.o[CHOOSE l \in Languages : l \in DOMAIN v.o]
         ELSE Obj([k \in (DOMAIN v.o) \ {"de", "en"} |->
                       delocalise_Fallback(v.o[k], lang)])
    ELSE v

RECURSIVE delocalise(_, _)
delocalise(v, lang) ==
    IF IsArr(v)
    THEN Arr([i \in DOMAIN v.a |-> delocalise(v.a[i], lang)])
    ELSE IF IsObj(v)
    THEN IF "de" \in DOMAIN v.o \/ "en" \in DOMAIN v.o
         THEN IF lang \in DOMAIN v.o THEN v.o[lang] ELSE Str("")
         ELSE Obj([k \in (DOMAIN v.o) \ {"de", "en"} |->
                       delocalise(v.o[k], lang)])
    ELSE v

\* the two expect() chains of from: an id that is a string, a hash that is an i64
FromPanics(hm) ==
    ~ /\ "id" \in DOMAIN hm
      /\ IsStr(hm["id"])
      /\ "hash" \in DOMAIN hm
      /\ IsNum(hm["hash"])

\* impl From<HashMap<String, Value>> for DelocalisedValues
From(hm) ==
    [key  |-> hm["id"].s,
     hash |-> hm["hash"].n,
     de   |-> Obj([k \in DOMAIN hm |-> delocalise(hm[k], "de")]),
     en   |-> Obj([k \in DOMAIN hm |-> delocalise(hm[k], "en")])]

-----------------------------------------------------------------------------
(* Inputs of the direct calls: values nested up to MaxDepth levels.  A leaf  *)
(* that is read as German text is DeText, a leaf read as English is EnText,  *)
(* so the language a leaf belongs to can be told from the leaf.              *)

MaxDepth == 2

DeText == Str("Hoersaal 1")
EnText == Str("Lecture Hall 1")

\* the LocaleObjects with German side in D and English side in E
LocaleObjects(D, E) ==
    {Obj([de |-> x, en |-> y]) : x \in D, y \in E}
        \cup {Obj([de |-> x]) : x \in D}
        \cup {Obj([en |-> y]) : y \in E}

\* a value, a one-element sequence of it, the plain mappings holding it
Wrap(S) ==
    S \cup {Arr(<<x>>) : x \in S}
      \cup {Obj([name |-> x]) : x \in S}
      \cup {Obj([name |-> x, floor |-> Num(2)]) : x \in S}

RECURSIVE DeValues(_), EnValues(_)
DeValues(d) ==
    IF d = 0 THEN {DeText}
    ELSE LET D == DeValues(d - 1)
             E == EnValues(d - 1)
         IN  Wrap(D) \cup LocaleObjects(D, E)

EnValues(d) ==
    IF d = 0 THEN {EnText}
    ELSE LET D == DeValues(d - 1)
             E == EnValues(d - 1)
         IN  Wrap(E) \cup LocaleObjects(D, E)

Values ==
    DeValues(MaxDepth) \cup EnValues(MaxDepth)
        \cup {Null, Num(7), Arr(<<>>), Obj(EmptyMap)}

\* one row of api_data.parquet as the HashMap download_updates builds
RawRecord(k, h, v) == [id |-> Str(k), hash |-> Num(h), name |-> v]

NoDv == [key |-> "", hash |-> 0, de |-> Null, en |-> Null]

-----------------------------------------------------------------------------
(* The handlers at rest *)

NoFrame == [id |-> [dtype |-> "str", vals |-> <<>>]]

NoStatus == [ok |-> FALSE, err |-> "none", tasks |-> <<>>]

StatusIdle ==
    /\ sdf = NoFrame
    /\ spc = "none"
    /\ sret = NoStatus

\* Option<Coordinate> / anyhow::Result<Option<Coordinate>>
NoneCoordinate == [tag |-> "None", lat |-> 0, lon |-> 0]
SomeCoordinate(c) == [tag |-> "Some", lat |-> c.lat, lon |-> c.lon]
ErrCoordinate == [tag |-> "Err", lat |-> 0, lon |-> 0]

NoResponse == [status |-> 0, body |-> ""]

RouteIdle ==
    /\ coords = EmptyMap
    /\ rargs = [from |-> [type |-> "none"], to |-> [type |-> "none"]]
    /\ rfrom = NoneCoordinate
    /\ rto = NoneCoordinate
    /\ rreq = <<>>
    /\ rresp = NoResponse
    /\ rpc = "none"

\* validate_token has not returned yet
NoReturn == [tok |-> [kid |-> 0], resp |-> NoResponse]

TokensIdle ==
    /\ clock = 0
    /\ leeway = 0
    /\ configured = FALSE
    /\ issued = {}
    /\ token_record = <<>>
    /\ vcall = <<>>
    /\ accepted = {}
    /\ replayed = {}
    /\ ticks = 0
    /\ vresp = NoReturn

OverlapIdle ==
    /\ opc = <<>>
    /\ ovals = <<>>
    /\ otask = <<>>
    /\ otxw = <<>>
    /\ oresult = <<>>
    /\ olog = <<>>

\* a QueryResult that is not there yet
NoQueryResult == [tag |-> "none", rows |-> <<>>, url |-> <<>>]

\* calendar_handler has not answered
NoCalendarResponse ==
    [status |-> 0, body |-> "", events |-> <<>>, last_sync |-> 0,
     calendar_url |-> <<>>]

CalendarIdle ==
    /\ cdb = [calendar |-> <<>>, rooms |-> EmptyMap]
    /\ cargs = [id |-> "", start |-> 0, end |-> 0]
    /\ cresults = NoQueryResult
    /\ curl = NoQueryResult
    /\ cresp = NoCalendarResponse
    /\ cpc = "none"

HandlersIdle ==
    StatusIdle /\ RouteIdle /\ TokensIdle /\ OverlapIdle /\ CalendarIdle

-----------------------------------------------------------------------------
(* Direct calls of delocalise and of from *)

InitPipe ==
    /\ db = [de |-> EmptyMap, en |-> EmptyMap]
    /\ txw = [de |-> EmptyMap, en |-> EmptyMap]
    /\ txOpen = FALSE
    /\ pc = "idle"
    /\ snapshot = <<>>
    /\ index = 0
    /\ vals = <<>>
    /\ task = 0
    /\ result = "none"
    /\ log = <<>>
    /\ pre = [de |-> EmptyMap, en |-> EmptyMap]
    /\ lastSnap = <<>>
    /\ runs = 0
    /\ aborted = <<>>

InitDelocalise ==
    /\ InitPipe
    /\ HandlersIdle
    /\ value \in Values
    /\ language \in Languages
    /\ ret = Null
    /\ dv = NoDv
    /\ dpc = "start"

DelocaliseCall ==
    /\ dpc = "start"
    /\ ret' = delocalise(value, language)
    /\ dpc' = "delocalised"
    /\ UNCHANGED <<value, language, dv>>
    /\ UNCHANGED <<pipeVars, handlerVars>>

FromCall ==
    /\ dpc = "start"
    /\ dv' = From(RawRecord("mw123", 7, value))
    /\ dpc' = "from"
    /\ UNCHANGED <<value, language, ret>>
    /\ UNCHANGED <<pipeVars, handlerVars>>

NextDelocalise == DelocaliseCall \/ FromCall

SpecDelocalise == InitDelocalise /\ [][NextDelocalise]_vars

-----------------------------------------------------------------------------
(* Sub-values *)

RECURSIVE SubValues(_)
SubValues(v) ==
    {v} \cup
    IF IsArr(v) THEN UNION {SubValues(v.a[i]) : i \in DOMAIN v.a}
    ELSE IF IsObj(v) THEN UNION {SubValues(v.o[k]) : k \in DOMAIN v.o}
    ELSE {}

Contains(v, w) == w \in SubValues(v)

\* a mapping that delocalise treats as a LocaleObject
IsLocaleObject(v) ==
    IsObj(v) /\ ("de" \in DOMAIN v.o \/ "en" \in DOMAIN v.o)

-----------------------------------------------------------------------------
(* The snapshots served to a run *)

MaxSnapshot == 2
MaxRuns == 3

Keys == {"mw123", "mi456"}

\* two published versions of a record: payload and hash change together
Version(n) ==
    IF n = 1
    THEN [hash |-> 7, name |-> Obj([de |-> DeText, en |-> EnText])]
    ELSE [hash |-> 8, name |-> Obj([de |-> Str("Raum 2"), en |-> Str("Room 2")])]

Records ==
    {RawRecord(k, Version(n).hash, Version(n).name) : k \in Keys, n \in {1, 2}}
        \cup {[hash |-> Num(7), name |-> Version(1).name]}

Snapshots == UNION {[1..n -> Records] : n \in 0..MaxSnapshot}

\* ids(snapshot)
Ids(snap) ==
    {snap[i]["id"].s : i \in {j \in DOMAIN snap : "id" \in DOMAIN snap[j]}}

-----------------------------------------------------------------------------
(* Tables and the transaction *)

NoRows == [de |-> EmptyMap, en |-> EmptyMap]

\* the rows of u alone
Over_Replaces(t, u) == u

\* rows of t, overridden by the rows of u
Over(t, u) ==
    [k \in DOMAIN t \cup DOMAIN u |-> IF k \in DOMAIN u THEN u[k] ELSE t[k]]

\* what a statement inside the transaction sees
View == [de |-> Over(db.de, txw.de), en |-> Over(db.en, txw.en)]

\* an upsert that counts revisions in the hash column
UpsertDe_BumpsHash(t, key, data, hash) ==
    IF key \in DOMAIN t
    THEN [t EXCEPT ![key].data = data, ![key].hash = t[key].hash + 1]
    ELSE [k \in DOMAIN t \cup {key} |->
              IF k = key THEN [data |-> data, hash |-> hash] ELSE t[k]]

\* an upsert that leaves the hash of an existing row alone
UpsertDe_KeepsHash(t, key, data, hash) ==
    IF key \in DOMAIN t
    THEN [t EXCEPT ![key].data = data]
    ELSE [k \in DOMAIN t \cup {key} |->
              IF k = key THEN [data |-> data, hash |-> hash] ELSE t[k]]

\* INSERT INTO de(key,data,hash) .. ON CONFLICT (key) DO UPDATE
\*   SET data = EXCLUDED.data, hash = EXCLUDED.hash
UpsertDe(t, key, data, hash) ==
    IF key \in DOMAIN t
    THEN [t EXCEPT ![key].data = data, ![key].hash = hash]
    ELSE [k \in DOMAIN t \cup {key} |->
              IF k = key THEN [data |-> data, hash |-> hash] ELSE t[k]]

\* INSERT INTO en(key,data) .. ON CONFLICT (key) DO UPDATE
\*   SET data = EXCLUDED.data
UpsertEn(t, key, data) ==
    IF key \in DOMAIN t
    THEN [t EXCEPT ![key].data = data]
    ELSE [k \in DOMAIN t \cup {key} |->
              IF k = key THEN [data |-> data] ELSE t[k]]

\* the row of key as the transaction's own write
Written(w, t, key) ==
    [k \in DOMAIN w \cup {key} |-> IF k = key THEN t[key] ELSE w[k]]

\* the store after the tasks were stored one after the other
RECURSIVE StoreAll(_, _)
StoreAll(store, tasks) ==
    IF tasks = <<>> THEN store
    ELSE StoreAll([de |-> UpsertDe(store.de, Head(tasks).key, Head(tasks).de,
                                   Head(tasks).hash),
                   en |-> UpsertEn(store.en, Head(tasks).key, Head(tasks).en)],
                  Tail(tasks))

-----------------------------------------------------------------------------
(* One run: the caller opens a transaction, download_updates, load_all_to_db, *)
(* commit; an error or a panic drops the transaction                          *)

Init ==
    /\ InitPipe
    /\ HandlersIdle
    /\ value = Null
    /\ language = "de"
    /\ ret = Null
    /\ dv = NoDv
    /\ dpc = "none"

\* some statement of the run failed
WriteFailed == \E i \in DOMAIN log : ~ log[i].ok

\* what is remembered of a run that a storage error aborts: the store before
\* the run and whether a statement of the run had succeeded
Aborting == <<[store |-> pre, wrote |-> \E i \in DOMAIN log : log[i].ok]>>

\* the caller starts a run
StartRun ==
    /\ pc = "idle"
    /\ runs < MaxRuns
    /\ runs' = runs + 1
    /\ \E snap \in Snapshots :
        /\ snapshot' = snap
        /\ lastSnap' = IF lastSnap # <<>> /\ lastSnap[1] = snap
                       THEN lastSnap ELSE <<>>
    /\ txOpen' = TRUE
    /\ txw' = NoRows
    /\ pre' = db
    /\ pc' = "fetch"
    /\ UNCHANGED <<db, index, vals, task, result, log, aborted>>
    /\ UNCHANGED <<callVars, handlerVars>>

\* download_updates up to the loop over the rows: the request, the
\* temporary file, ParquetReader::finish().unwrap(), the empty Vec
Fetch ==
    /\ pc = "fetch"
    /\ \E outcome \in {"ok", "NetworkError", "IoError", "malformed"} :
        \/ /\ outcome = "ok"
           /\ pc' = "rows"
           /\ vals' = <<>>
           /\ index' = 0
           /\ UNCHANGED result
        \/ /\ outcome \in {"NetworkError", "IoError"}
           /\ result' = outcome
           /\ pc' = "failed"
           /\ UNCHANGED <<index, vals>>
        \/ /\ outcome = "malformed"
           /\ result' = "panic_unwrap"
           /\ pc' = "failed"
           /\ UNCHANGED <<index, vals>>
    /\ UNCHANGED <<db, txw, txOpen, snapshot, task, log, pre, lastSnap, runs, aborted>>
    /\ UNCHANGED <<callVars, handlerVars>>

\* a loop that puts each decoded row in front of the rows decoded before it
DecodeRow_Prepends ==
    /\ pc = "rows"
    /\ index < Len(snapshot)
    /\ \E ok \in BOOLEAN :
        IF ~ ok
        THEN /\ result' = "DecodeError"
             /\ pc' = "failed"
             /\ UNCHANGED <<index, vals>>
        ELSE IF FromPanics(snapshot[index + 1])
        THEN /\ result' = "panic_expect"
             /\ pc' = "failed"
             /\ UNCHANGED <<index, vals>>
        ELSE /\ vals' = <<From(snapshot[index + 1])>> \o vals
             /\ index' = index + 1
             /\ UNCHANGED <<result, pc>>
    /\ UNCHANGED <<db, txw, txOpen, snapshot, task, log, pre, lastSnap, runs, aborted>>
    /\ UNCHANGED <<callVars, handlerVars>>

\* one iteration of the loop over the rows in download_updates
DecodeRow ==
    /\ pc = "rows"
    /\ index < Len(snapshot)
    /\ \E ok \in BOOLEAN :
        IF ~ ok
        THEN /\ result' = "DecodeError"
             /\ pc' = "failed"
             /\ UNCHANGED <<index, vals>>
        ELSE IF FromPanics(snapshot[index + 1])
        THEN /\ result' = "panic_expect"
             /\ pc' = "failed"
             /\ UNCHANGED <<index, vals>>
        ELSE /\ vals' = Append(vals, From(snapshot[index + 1]))
             /\ index' = index + 1
             /\ UNCHANGED <<result, pc>>
    /\ UNCHANGED <<db, txw, txOpen, snapshot, task, log, pre, lastSnap, runs, aborted>>
    /\ UNCHANGED <<callVars, handlerVars>>

\* a loop that stops before the last task
LoadAt_SkipsLast(n) == IF n >= Len(vals) THEN "loaded" ELSE "store_de"

\* position of load_all_to_db before task number n
LoadAt(n) == IF n > Len(vals) THEN "loaded" ELSE "store_de"

\* loading starts while rows are still to be decoded
DownloadDone_Early ==
    /\ pc = "rows"
    /\ index >= 1 \/ index = Len(snapshot)
    /\ task' = 1
    /\ pc' = IF 1 > Len(vals) THEN "loaded" ELSE "store_de"
    /\ UNCHANGED <<db, txw, txOpen, snapshot, index, vals, result, log, pre,
                   lastSnap, runs, aborted>>
    /\ UNCHANGED <<callVars, handlerVars>>

\* download_updates returns Ok(LimitedVec(vals)), load_all_to_db starts
DownloadDone ==
    /\ pc = "rows"
    /\ index = Len(snapshot)
    /\ task' = 1
    /\ pc' = LoadAt(1)
    /\ UNCHANGED <<db, txw, txOpen, snapshot, index, vals, result, log, pre,
                   lastSnap, runs, aborted>>
    /\ UNCHANGED <<callVars, handlerVars>>

\* store that logs a failed statement on de and goes on to the next task
StoreDe_Continues ==
    /\ pc = "store_de"
    /\ \E ok \in BOOLEAN :
        /\ log' = Append(log, [key |-> vals[task].key, table |-> "de", ok |-> ok])
        /\ IF ok
           THEN /\ txw' = [txw EXCEPT !.de =
                      Written(txw.de,
                              UpsertDe(View.de, vals[task].key,
                                       vals[task].de, vals[task].hash),
                              vals[task].key)]
                /\ pc' = "store_en"
                /\ UNCHANGED <<result, task>>
           ELSE /\ task' = task + 1
                /\ pc' = IF task + 1 > Len(vals) THEN "loaded" ELSE "store_de"
                /\ UNCHANGED <<txw, result>>
    /\ UNCHANGED <<db, txOpen, snapshot, index, vals, pre, lastSnap, runs>>
    /\ aborted' = IF WriteFailed' THEN Aborting ELSE aborted
    /\ UNCHANGED <<callVars, handlerVars>>

\* store that attempts the statement on en also after the one on de failed
StoreDe_AttemptsEn ==
    /\ pc = "store_de"
    /\ \E ok \in BOOLEAN :
        /\ log' = Append(log, [key |-> vals[task].key, table |-> "de", ok |-> ok])
        /\ IF ok
           THEN /\ txw' = [txw EXCEPT !.de =
                      Written(txw.de,
                              UpsertDe(View.de, vals[task].key,
                                       vals[task].de, vals[task].hash),
                              vals[task].key)]
                /\ UNCHANGED result
           ELSE /\ result' = "StorageError"
                /\ UNCHANGED txw
        /\ pc' = "store_en"
    /\ UNCHANGED <<db, txOpen, snapshot, index, vals, task, pre, lastSnap, runs>>
    /\ aborted' = IF WriteFailed' THEN Aborting ELSE aborted
    /\ UNCHANGED <<callVars, handlerVars>>

\* store whose statement on de runs on the pool, outside the transaction
StoreDe_Autocommit ==
    /\ pc = "store_de"
    /\ \E ok \in BOOLEAN :
        /\ log' = Append(log, [key |-> vals[task].key, table |-> "de", ok |-> ok])
        /\ IF ok
           THEN /\ db' = [db EXCEPT !.de =
                      UpsertDe(db.de, vals[task].key,
                               vals[task].de, vals[task].hash)]
                /\ pc' = "store_en"
                /\ UNCHANGED result
           ELSE /\ result' = "StorageError"
                /\ pc' = "failed"
                /\ UNCHANGED db
    /\ UNCHANGED <<txw, txOpen, snapshot, index, vals, task, pre, lastSnap, runs>>
    /\ aborted' = IF WriteFailed' THEN Aborting ELSE aborted
    /\ UNCHANGED <<callVars, handlerVars>>

\* store: the statement on table de
StoreDe ==
    /\ pc = "store_de"
    /\ \E ok \in BOOLEAN :
        /\ log' = Append(log, [key |-> vals[task].key, table |-> "de", ok |-> ok])
        /\ IF ok
           THEN /\ txw' = [txw EXCEPT !.de =
                      Written(txw.de,
                              UpsertDe(View.de, vals[task].key,
                                       vals[task].de, vals[task].hash),
                              vals[task].key)]
                /\ pc' = "store_en"
                /\ UNCHANGED result
           ELSE /\ result' = "StorageError"
                /\ pc' = "failed"
                /\ UNCHANGED txw
    /\ UNCHANGED <<db, txOpen, snapshot, index, vals, task, pre, lastSnap, runs>>
    /\ aborted' = IF WriteFailed' THEN Aborting ELSE aborted
    /\ UNCHANGED <<callVars, handlerVars>>

\* store whose statement on en runs on the pool, outside the transaction
StoreEn_Autocommit ==
    /\ pc = "store_en"
    /\ \E ok \in BOOLEAN :
        /\ log' = Append(log, [key |-> vals[task].key, table |-> "en", ok |-> ok])
        /\ IF ok
           THEN /\ db' = [db EXCEPT !.en =
                      UpsertEn(db.en, vals[task].key, vals[task].en)]
                /\ task' = task + 1
                /\ pc' = LoadAt(task + 1)
                /\ UNCHANGED result
           ELSE /\ result' = "StorageError"
                /\ pc' = "failed"
                /\ UNCHANGED <<db, task>>
    /\ UNCHANGED <<txw, txOpen, snapshot, index, vals, pre, lastSnap, runs>>
    /\ aborted' = IF WriteFailed' THEN Aborting ELSE aborted
    /\ UNCHANGED <<callVars, handlerVars>>

\* store: the statement on table en, then the next task
StoreEn ==
    /\ pc = "store_en"
    /\ \E ok \in BOOLEAN :
        /\ log' = Append(log, [key |-> vals[task].key, table |-> "en", ok |-> ok])
        /\ IF ok
           THEN /\ txw' = [txw EXCEPT !.en =
                      Written(txw.en,
                              UpsertEn(View.en, vals[task].key, vals[task].en),
                              vals[task].key)]
                /\ task' = task + 1
                /\ pc' = LoadAt(task + 1)
                /\ UNCHANGED result
           ELSE /\ result' = "StorageError"
                /\ pc' = "failed"
                /\ UNCHANGED <<txw, task>>
    /\ UNCHANGED <<db, txOpen, snapshot, index, vals, pre, lastSnap, runs>>
    /\ aborted' = IF WriteFailed' THEN Aborting ELSE aborted
    /\ UNCHANGED <<callVars, handlerVars>>

\* the caller commits the transaction after load_all_to_db returned Ok
Commit ==
    /\ pc = "loaded"
    /\ \E ok \in BOOLEAN :
        IF ok
        THEN /\ db' = [de |-> Over(db.de, txw.de), en |-> Over(db.en, txw.en)]
             /\ result' = "Ok"
             /\ lastSnap' = Append(lastSnap, snapshot)
        ELSE /\ result' = "StorageError"
             /\ UNCHANGED <<db, lastSnap>>
    /\ aborted' = IF result' = "Ok" THEN aborted ELSE Aborting
    /\ txOpen' = FALSE
    /\ txw' = NoRows
    /\ pc' = "done"
    /\ UNCHANGED <<snapshot, index, vals, task, log, pre, runs>>
    /\ UNCHANGED <<callVars, handlerVars>>

\* the transaction is dropped without commit: rollback
Drop ==
    /\ pc = "failed"
    /\ txOpen' = FALSE
    /\ txw' = NoRows
    /\ pc' = "done"
    /\ UNCHANGED <<db, snapshot, index, vals, task, result, log, pre, lastSnap,
                   runs, aborted>>
    /\ UNCHANGED <<callVars, handlerVars>>

\* the run is over: its values go out of scope
Finish ==
    /\ pc = "done"
    /\ pc' = "idle"
    /\ snapshot' = <<>>
    /\ index' = 0
    /\ vals' = <<>>
    /\ task' = 0
    /\ result' = "none"
    /\ log' = <<>>
    /\ pre' = NoRows
    /\ aborted' = IF result = "Ok" THEN <<>> ELSE aborted
    /\ UNCHANGED <<db, txw, txOpen, lastSnap, runs>>
    /\ UNCHANGED <<callVars, handlerVars>>

Next ==
    \/ StartRun
    \/ Fetch
    \/ DecodeRow
    \/ DownloadDone
    \/ StoreDe
    \/ StoreEn
    \/ Commit
    \/ Drop
    \/ Finish

Spec == Init /\ [][Next]_vars

TypeOK ==
    /\ pc \in {"idle", "fetch", "rows", "store_de", "store_en", "loaded", "failed",
              "done"}
    /\ result \in {"none", "Ok", "NetworkError", "IoError", "DecodeError",
                   "StorageError", "panic_unwrap", "panic_expect"}
    /\ DOMAIN db.de \subseteq Keys
    /\ DOMAIN db.en \subseteq Keys
    /\ runs \in 0..MaxRuns

-----------------------------------------------------------------------------
(* download_status: status_data.parquet as a DataFrame of typed columns.    *)
(* A cell is Str(..) in a string column, Num(..) in an Int64 column, or Null *)

MaxRows == 2

IdCells == {Str("mw123"), Str("mi456"), Null}
HashCells == {Num(7), Num(8), Null}

\* the DataFrame with the given rows, each row a pair <<id cell, hash cell>>
Frame(rows) ==
    [id   |-> [dtype |-> "str", vals |-> [i \in DOMAIN rows |-> rows[i][1]]],
     hash |-> [dtype |-> "i64", vals |-> [i \in DOMAIN rows |-> rows[i][2]]]]

\* a status file whose id column holds numbers
NumericIdFrame(rows) ==
    [id   |-> [dtype |-> "i64", vals |-> [i \in DOMAIN rows |-> rows[i][2]]],
     hash |-> [dtype |-> "i64", vals |-> [i \in DOMAIN rows |-> rows[i][2]]]]

StatusRows == UNION {[1..n -> IdCells \X HashCells] : n \in 0..MaxRows}

Frames == {Frame(rows) : rows \in StatusRows}
              \cup {NumericIdFrame(rows) : rows \in StatusRows}

\* df.column(name)?.str()?: the cells, or the error of the first `?` that fails
StrColumn(df, name) ==
    IF name \notin DOMAIN df THEN [err |-> "ColumnNotFound", vals |-> <<>>]
    ELSE IF df[name].dtype # "str" THEN [err |-> "SchemaMismatch", vals |-> <<>>]
    ELSE [err |-> "none", vals |-> df[name].vals]

\* df.column(name)?.i64()?
I64Column(df, name) ==
    IF name \notin DOMAIN df THEN [err |-> "ColumnNotFound", vals |-> <<>>]
    ELSE IF df[name].dtype # "i64" THEN [err |-> "SchemaMismatch", vals |-> <<>>]
    ELSE [err |-> "none", vals |-> df[name].vals]

\* id_col.into_iter().zip(hash_col).flat_map(..): the pairs of the rows in
\* which both cells are present, in row order
RECURSIVE ZipPresent(_, _)
ZipPresent(ids, hashes) ==
    IF ids = <<>> \/ hashes = <<>> THEN <<>>
    ELSE (IF Head(ids) # Null /\ Head(hashes) # Null
          THEN <<(<<Head(ids).s, Head(hashes).n>>)>> ELSE <<>>)
         \o ZipPresent(Tail(ids), Tail(hashes))

InitStatus ==
    /\ InitPipe
    /\ value = Null
    /\ language = "de"
    /\ ret = Null
    /\ dv = NoDv
    /\ dpc = "none"
    /\ sdf \in Frames
    /\ spc = "fetch"
    /\ sret = NoStatus
    /\ RouteIdle
    /\ TokensIdle
    /\ OverlapIdle
    /\ CalendarIdle

\* the request, the temporary file, ParquetReader::finish().unwrap()
StatusFetch ==
    /\ spc = "fetch"
    /\ \E outcome \in {"ok", "NetworkError", "IoError", "panic_unwrap"} :
        IF outcome = "ok"
        THEN /\ spc' = "columns"
             /\ UNCHANGED sret
        ELSE /\ spc' = "failed"
             /\ sret' = [ok |-> FALSE, err |-> outcome, tasks |-> <<>>]
    /\ UNCHANGED sdf
    /\ UNCHANGED <<pipeVars, callVars, routeVars, tokenVars, overlapVars,
                   calendarVars>>

\* the two column reads, the zip and the return
StatusColumns ==
    /\ spc = "columns"
    /\ LET id_col == StrColumn(sdf, "id")
           hash_col == I64Column(sdf, "id")
       IN  sret' = IF id_col.err # "none"
                   THEN [ok |-> FALSE, err |-> id_col.err, tasks |-> <<>>]
                   ELSE IF hash_col.err # "none"
                   THEN [ok |-> FALSE, err |-> hash_col.err, tasks |-> <<>>]
                   ELSE [ok |-> TRUE, err |-> "none",
                         tasks |-> ZipPresent(id_col.vals, hash_col.vals)]
    /\ spc' = "returned"
    /\ UNCHANGED sdf
    /\ UNCHANGED <<pipeVars, callVars, routeVars, tokenVars, overlapVars,
                   calendarVars>>

NextStatus == StatusFetch \/ StatusColumns

SpecStatus == InitStatus /\ [][NextStatus]_vars

\* the status snapshot is a table of (id, hash) pairs
IsStatusSnapshot(df) ==
    /\ DOMAIN df = {"id", "hash"}
    /\ df["id"].dtype = "str"
    /\ df["hash"].dtype = "i64"
    /\ \A i \in DOMAIN df["id"].vals : df["id"].vals[i] # Null
    /\ \A i \in DOMAIN df["hash"].vals : df["hash"].vals[i] # Null

-----------------------------------------------------------------------------
(* route_handler.  A coordinate is a pair of f64 values, written here in     *)
(* units of 2^-20 degree; `as f32` keeps 24 significant bits.                *)

\* the spacing of the f32 values around n
RECURSIVE Ulp(_)
Ulp(n) == IF n < 16777216 THEN 1 ELSE 2 * Ulp(n \div 2)

\* n as f32: the nearest f32 value, ties to the even one
AsF32(n) ==
    LET u == Ulp(n)
        q == n \div u
        r == n % u
    IN  IF 2 * r < u THEN q * u
        ELSE IF 2 * r > u THEN (q + 1) * u
        ELSE IF q % 2 = 0 THEN q * u ELSE (q + 1) * u

\* Location::new(c.lat as f32, c.lon as f32)
Location(c) == [lat |-> AsF32(c.lat), lon |-> AsF32(c.lon)]

\* 48.26244.. N 11.66858.. E and 48.14962.. N 11.56786.. E
Garching == [lat |-> 50606837, lon |-> 12235393]
Stammgelaende == [lat |-> 50488535, lon |-> 12129781]
UsersPosition == [lat |-> 50480001, lon |-> 12130003]

\* the rows of de: two with coordinates, one whose lat and lon are NULL
CoordinateTables ==
    {[k \in {"mw123", "mi456", "zz999"} |->
         IF k = "mw123" THEN SomeCoordinate(Garching)
         ELSE IF k = "mi456" THEN SomeCoordinate(Stammgelaende)
         ELSE NoneCoordinate],
     [k \in {"mw123"} |-> SomeCoordinate(Garching)]}

\* RequestedLocation
RequestedCoordinate(c) == [type |-> "coordinate", lat |-> c.lat, lon |-> c.lon, key |-> ""]
RequestedKey(k) == [type |-> "location", lat |-> 0, lon |-> 0, key |-> k]

RequestedLocations ==
    {RequestedCoordinate(UsersPosition)}
        \cup {RequestedKey(k) : k \in {"mw123", "mi456", "zz999", "nokey"}}

\* RequestedLocation::try_resolve_coordinates; ok is whether the query succeeds
TryResolveCoordinates(loc, ok) ==
    IF loc.type = "coordinate" THEN SomeCoordinate(loc)
    ELSE IF ~ ok THEN ErrCoordinate
    ELSE IF loc.key \in DOMAIN coords /\ coords[loc.key].tag = "Some"
         THEN coords[loc.key]
         ELSE NoneCoordinate

InitRoute ==
    /\ InitPipe
    /\ value = Null
    /\ language = "de"
    /\ ret = Null
    /\ dv = NoDv
    /\ dpc = "none"
    /\ StatusIdle
    /\ coords \in CoordinateTables
    /\ rargs \in [from : RequestedLocations, to : RequestedLocations]
    /\ rfrom = NoneCoordinate
    /\ rto = NoneCoordinate
    /\ rreq = <<>>
    /\ rresp = NoResponse
    /\ rpc = "from"
    /\ TokensIdle
    /\ OverlapIdle
    /\ CalendarIdle

\* let from = args.from.try_resolve_coordinates(&data.pool).await;
RouteResolveFrom ==
    /\ rpc = "from"
    /\ \E ok \in BOOLEAN : rfrom' = TryResolveCoordinates(rargs.from, ok)
    /\ rpc' = "to"
    /\ UNCHANGED <<coords, rargs, rto, rreq, rresp>>
    /\ UNCHANGED <<pipeVars, callVars, statusVars, tokenVars, overlapVars,
                   calendarVars>>

\* let to = args.from.try_resolve_coordinates(&data.pool).await;
RouteResolveTo ==
    /\ rpc = "to"
    /\ \E ok \in BOOLEAN : rto' = TryResolveCoordinates(rargs.from, ok)
    /\ rpc' = "match"
    /\ UNCHANGED <<coords, rargs, rfrom, rreq, rresp>>
    /\ UNCHANGED <<pipeVars, callVars, statusVars, tokenVars, overlapVars,
                   calendarVars>>

\* the match on (from, to): both resolved, or 404, or 500
RouteMatch ==
    /\ rpc = "match"
    /\ IF rfrom.tag = "Some" /\ rto.tag = "Some"
       THEN /\ rpc' = "route"
            /\ UNCHANGED rresp
       ELSE IF rfrom.tag = "None" \/ rto.tag = "None"
       THEN /\ rpc' = "returned"
            /\ rresp' = [status |-> 404, body |-> "Not found"]
       ELSE /\ rpc' = "returned"
            /\ rresp' = [status |-> 500, body |-> "Failed to resolve key"]
    /\ UNCHANGED <<coords, rargs, rfrom, rto, rreq>>
    /\ UNCHANGED <<pipeVars, callVars, statusVars, tokenVars, overlapVars,
                   calendarVars>>

\* the Manifest with locations [from, to] is sent with valhalla.route
RouteRequest ==
    /\ rpc = "route"
    /\ rreq' = Append(rreq, <<Location(rfrom), Location(rto)>>)
    /\ \E ok \in BOOLEAN :
        rresp' = IF ok THEN [status |-> 200, body |-> "RoutingResponse"]
                 ELSE [status |-> 500,
                       body |-> "Could not generate a route, please try again later"]
    /\ rpc' = "returned"
    /\ UNCHANGED <<coords, rargs, rfrom, rto>>
    /\ UNCHANGED <<pipeVars, callVars, statusVars, tokenVars, overlapVars,
                   calendarVars>>

NextRoute == RouteResolveFrom \/ RouteResolveTo \/ RouteMatch \/ RouteRequest

SpecRoute == InitRoute /\ [][NextRoute]_vars

\* the coordinates of a requested location in the store, if it has any
HasCoordinates(loc) ==
    loc.type = "coordinate"
        \/ (loc.key \in DOMAIN coords /\ coords[loc.key].tag = "Some")

CoordinatesOf(loc) ==
    IF loc.type = "coordinate" THEN [lat |-> loc.lat, lon |-> loc.lon]
    ELSE [lat |-> coords[loc.key].lat, lon |-> coords[loc.key].lon]

-----------------------------------------------------------------------------
(* Feedback tokens: Claims::new and validate_token on one server instance.  *)
(* Time is in seconds since the server started.                             *)

TOKEN_MIN_AGE == 5
TOKEN_MAX_AGE == 3600 * 12

MaxTicks == 2
MaxTokens == 1

\* rand::random(): any u64, two of them here
Kids == {11, 22}

\* Validation::default(): exp is validated, nbf is not; the leeway is 0 up
\* to jsonwebtoken 7 and 60 seconds from jsonwebtoken 8
Leeways == {0, 60}
ValidateExp == TRUE
ValidateNbf == FALSE

\* the steps the clock takes between two events
ClockSteps == {1, TOKEN_MIN_AGE, 60, TOKEN_MAX_AGE}

\* Claims::new() at time now
NewClaims(now, kid) ==
    [exp |-> now + TOKEN_MAX_AGE,
     iat |-> now,
     nbf |-> now + TOKEN_MIN_AGE,
     kid |-> kid,
     signed |-> TRUE]

\* a token that was not signed with JWT_KEY
Forged == [exp |-> TOKEN_MAX_AGE, iat |-> 0, nbf |-> 0, kid |-> 11, signed |-> FALSE]

\* decode::<Claims>(supplied_token, &x, &Validation::default()) at time now:
\* the ErrorKind, or "none" for Ok(token)
Decode(tok, now) ==
    IF ~ tok.signed THEN "InvalidSignature"
    ELSE IF ValidateExp /\ tok.exp < now - leeway THEN "ExpiredSignature"
    ELSE IF ValidateNbf /\ tok.nbf > now + leeway THEN "ImmatureSignature"
    ELSE "none"

\* tokens.retain(|t| t.next_reset > now)
Retain(tokens, now) == SelectSeq(tokens, LAMBDA t : t.next_reset > now)

Forbidden(body) == [status |-> 403, body |-> body]

\* validate_token returned None
Accepted == [status |-> 0, body |-> "None"]

IdleCall == [pc |-> "idle", tok |-> Forged, kid |-> 0]

InitTokens ==
    /\ InitPipe
    /\ value = Null
    /\ language = "de"
    /\ ret = Null
    /\ dv = NoDv
    /\ dpc = "none"
    /\ StatusIdle
    /\ RouteIdle
    /\ clock = 0
    /\ leeway \in Leeways
    /\ configured \in BOOLEAN
    /\ issued = {}
    /\ token_record = <<>>
    /\ vcall = <<IdleCall, IdleCall>>
    /\ accepted = {}
    /\ replayed = {}
    /\ ticks = 0
    /\ vresp = NoReturn
    /\ OverlapIdle
    /\ CalendarIdle

\* time passes
Tick ==
    /\ ticks < MaxTicks
    /\ \E d \in ClockSteps : clock' = clock + d
    /\ ticks' = ticks + 1
    /\ UNCHANGED <<leeway, configured, issued, token_record, vcall, accepted,
                   replayed,
                   vresp>>
    /\ UNCHANGED <<pipeVars, callVars, statusVars, routeVars, overlapVars,
                   calendarVars>>

\* a token is handed out: Claims::new()
NewToken ==
    /\ Cardinality(issued) < MaxTokens
    /\ \E kid \in Kids : issued' = issued \cup {NewClaims(clock, kid)}
    /\ UNCHANGED <<clock, leeway, configured, token_record, vcall, accepted,
                   replayed,
                   ticks, vresp>>
    /\ UNCHANGED <<pipeVars, callVars, statusVars, routeVars, overlapVars,
                   calendarVars>>

\* the response for a token that validate_token does not decode
Rejected(tok) ==
    IF ~ configured
    THEN [status |-> 503,
          body |-> "Feedback is currently not configured on this server."]
    ELSE IF Decode(tok, clock) = "ImmatureSignature"
    THEN Forbidden("Token is not yet valid.")
    ELSE IF Decode(tok, clock) = "ExpiredSignature"
    THEN Forbidden("Token expired")
    ELSE IF Decode(tok, clock) # "none"
    THEN Forbidden("Invalid token")
    ELSE NoResponse

\* validate_token up to the decoded kid: the 503 and the 403 of a token that
\* does not decode
ValidateDecode(c) ==
    /\ vcall[c].pc = "idle"
    /\ \E tok \in issued \cup {Forged} :
        IF Rejected(tok) # NoResponse
        THEN /\ vresp' = [tok |-> tok, resp |-> Rejected(tok)]
             /\ UNCHANGED vcall
        ELSE /\ vcall' = [vcall EXCEPT ![c] =
                            [pc |-> "decoded", tok |-> tok, kid |-> tok.kid]]
             /\ UNCHANGED vresp
    /\ UNCHANGED <<clock, leeway, configured, issued, token_record, accepted,
                   replayed, ticks>>
    /\ UNCHANGED <<pipeVars, callVars, statusVars, routeVars, overlapVars,
                   calendarVars>>

\* validate_token that records the presentation before it looks for the kid
ValidateRecord_PushesFirst(c) ==
    /\ vcall[c].pc = "decoded"
    /\ LET now == clock
           tokens == Retain(token_record, now)
       IN  /\ token_record' =
                 Append(tokens, [kid |-> vcall[c].kid,
                                 next_reset |-> now + TOKEN_MAX_AGE])
           /\ IF \E i \in DOMAIN tokens : tokens[i].kid = vcall[c].kid
              THEN /\ vresp' = [tok |-> vcall[c].tok,
                                resp |-> Forbidden("Token already used.")]
                   /\ UNCHANGED <<accepted, replayed>>
              ELSE /\ vresp' = [tok |-> vcall[c].tok, resp |-> Accepted]
                   /\ accepted' = accepted \cup {vcall[c].tok}
                   /\ replayed' = replayed \cup ({vcall[c].tok} \cap accepted)
    /\ vcall' = [vcall EXCEPT ![c] = IdleCall]
    /\ UNCHANGED <<clock, leeway, configured, issued, ticks>>
    /\ UNCHANGED <<pipeVars, callVars, statusVars, routeVars, overlapVars,
                   calendarVars>>

\* validate_token from `let now` on, under the lock on state.token_record
ValidateRecord(c) ==
    /\ vcall[c].pc = "decoded"
    /\ LET now == clock
           tokens == Retain(token_record, now)
       IN  IF \E i \in DOMAIN tokens : tokens[i].kid = vcall[c].kid
           THEN /\ token_record' = tokens
                /\ vresp' = [tok |-> vcall[c].tok,
                             resp |-> Forbidden("Token already used.")]
                /\ UNCHANGED <<accepted, replayed>>
           ELSE /\ token_record' =
                      Append(tokens, [kid |-> vcall[c].kid,
                                      next_reset |-> now + TOKEN_MAX_AGE])
                /\ vresp' = [tok |-> vcall[c].tok, resp |-> Accepted]
                /\ accepted' = accepted \cup {vcall[c].tok}
                /\ replayed' = replayed \cup ({vcall[c].tok} \cap accepted)
    /\ vcall' = [vcall EXCEPT ![c] = IdleCall]
    /\ UNCHANGED <<clock, leeway, configured, issued, ticks>>
    /\ UNCHANGED <<pipeVars, callVars, statusVars, routeVars, overlapVars,
                   calendarVars>>

NextTokens ==
    \/ Tick
    \/ NewToken
    \/ \E c \in {1, 2} : ValidateDecode(c)
    \/ \E c \in {1, 2} : ValidateRecord(c)

SpecTokens == InitTokens /\ [][NextTokens]_vars

-----------------------------------------------------------------------------
(* Two overlapping runs of load_all_to_db, each in its own transaction on    *)
(* the same store.  A row written by an open transaction is locked until the *)
(* transaction ends: a statement of the other run on that row waits.         *)

Runs == {1, 2}

Other(r) == 3 - r

\* the snapshot of run r: records of the r-th published version
SnapshotsOf(r) ==
    UNION {[1..n -> {RawRecord(k, Version(r).hash, Version(r).name) : k \in Keys}]
               : n \in 0..MaxSnapshot}

\* download_updates: the tasks of a snapshot
TasksOf(snap) == [i \in DOMAIN snap |-> From(snap[i])]

\* the store before the two runs: empty, or filled by an earlier run
StoresBefore ==
    {NoRows, StoreAll(NoRows, TasksOf([i \in 1..1 |-> RawRecord("mw123", 7, DeText)]))}

\* what a statement inside the transaction of run r sees
ViewOf(r) == [de |-> Over(db.de, otxw[r].de), en |-> Over(db.en, otxw[r].en)]

\* the row of key in the table is locked by the open transaction of run r
LockedBy(r, table, key) ==
    /\ opc[r] \in {"store_de", "store_en", "loaded", "failed"}
    /\ key \in DOMAIN otxw[r][table]

\* position of load_all_to_db of run r before task number n
LoadAtOf(r, n) == IF n > Len(ovals[r]) THEN "loaded" ELSE "store_de"

InitOverlap ==
    /\ db \in StoresBefore
    /\ txw = NoRows
    /\ txOpen = FALSE
    /\ pc = "idle"
    /\ snapshot = <<>>
    /\ index = 0
    /\ vals = <<>>
    /\ task = 0
    /\ result = "none"
    /\ log = <<>>
    /\ pre = NoRows
    /\ lastSnap = <<>>
    /\ runs = 0
    /\ aborted = <<>>
    /\ value = Null
    /\ language = "de"
    /\ ret = Null
    /\ dv = NoDv
    /\ dpc = "none"
    /\ StatusIdle
    /\ RouteIdle
    /\ TokensIdle
    /\ CalendarIdle
    /\ \E s1 \in SnapshotsOf(1), s2 \in SnapshotsOf(2) :
        ovals = <<TasksOf(s1), TasksOf(s2)>>
    /\ opc = <<"begin", "begin">>
    /\ otask = <<0, 0>>
    /\ otxw = <<NoRows, NoRows>>
    /\ oresult = <<"none", "none">>
    /\ olog = <<>>

\* run r opens its transaction and enters load_all_to_db
OverlapBegin(r) ==
    /\ opc[r] = "begin"
    /\ opc' = [opc EXCEPT ![r] = LoadAtOf(r, 1)]
    /\ otask' = [otask EXCEPT ![r] = 1]
    /\ UNCHANGED <<db, ovals, otxw, oresult, olog>>

\* store of run r whose statement on de runs on the pool, outside the
\* transaction: it takes effect at once and holds no lock
OverlapStoreDe_Autocommit(r) ==
    /\ opc[r] = "store_de"
    /\ LET t == ovals[r][otask[r]] IN
       \E ok \in BOOLEAN :
        IF ok
        THEN /\ ~ LockedBy(Other(r), "de", t.key)
             /\ db' = [db EXCEPT !.de = UpsertDe(db.de, t.key, t.de, t.hash)]
             /\ opc' = [opc EXCEPT ![r] = "store_en"]
             /\ olog' = Append(olog, [run |-> r, table |-> "de", key |-> t.key])
             /\ UNCHANGED <<otxw, oresult>>
        ELSE /\ oresult' = [oresult EXCEPT ![r] = "StorageError"]
             /\ opc' = [opc EXCEPT ![r] = "failed"]
             /\ UNCHANGED <<db, otxw, olog>>
    /\ UNCHANGED <<ovals, otask>>

\* store of run r: the statement on table de.  It waits while the row is
\* locked by the other run; it fails on a storage error, a detected deadlock
\* among them
OverlapStoreDe(r) ==
    /\ opc[r] = "store_de"
    /\ LET t == ovals[r][otask[r]] IN
       \E ok \in BOOLEAN :
        IF ok
        THEN /\ ~ LockedBy(Other(r), "de", t.key)
             /\ otxw' = [otxw EXCEPT ![r].de =
                   Written(otxw[r].de,
                           UpsertDe(ViewOf(r).de, t.key, t.de, t.hash), t.key)]
             /\ opc' = [opc EXCEPT ![r] = "store_en"]
             /\ olog' = Append(olog, [run |-> r, table |-> "de", key |-> t.key])
             /\ UNCHANGED <<db, oresult>>
        ELSE /\ oresult' = [oresult EXCEPT ![r] = "StorageError"]
             /\ opc' = [opc EXCEPT ![r] = "failed"]
             /\ UNCHANGED <<db, otxw, olog>>
    /\ UNCHANGED <<ovals, otask>>

\* store of run r: the statement on table en, then the next task
OverlapStoreEn(r) ==
    /\ opc[r] = "store_en"
    /\ LET t == ovals[r][otask[r]] IN
       \E ok \in BOOLEAN :
        IF ok
        THEN /\ ~ LockedBy(Other(r), "en", t.key)
             /\ otxw' = [otxw EXCEPT ![r].en =
                   Written(otxw[r].en, UpsertEn(ViewOf(r).en, t.key, t.en), t.key)]
             /\ otask' = [otask EXCEPT ![r] = otask[r] + 1]
             /\ opc' = [opc EXCEPT ![r] = LoadAtOf(r, otask[r] + 1)]
             /\ olog' = Append(olog, [run |-> r, table |-> "en", key |-> t.key])
             /\ UNCHANGED oresult
        ELSE /\ oresult' = [oresult EXCEPT ![r] = "StorageError"]
             /\ opc' = [opc EXCEPT ![r] = "failed"]
             /\ UNCHANGED <<otxw, otask, olog>>
    /\ UNCHANGED <<db, ovals>>

\* run r commits after load_all_to_db returned Ok: its rows become the
\* committed rows and its locks are released
OverlapCommit(r) ==
    /\ opc[r] = "loaded"
    /\ \E ok \in BOOLEAN :
        IF ok
        THEN /\ db' = [de |-> Over(db.de, otxw[r].de), en |-> Over(db.en, otxw[r].en)]
             /\ oresult' = [oresult EXCEPT ![r] = "Ok"]
        ELSE /\ oresult' = [oresult EXCEPT ![r] = "StorageError"]
             /\ UNCHANGED db
    /\ otxw' = [otxw EXCEPT ![r] = NoRows]
    /\ opc' = [opc EXCEPT ![r] = "done"]
    /\ UNCHANGED <<ovals, otask, olog>>

\* the transaction of run r is dropped without commit: rollback
OverlapDrop(r) ==
    /\ opc[r] = "failed"
    /\ otxw' = [otxw EXCEPT ![r] = NoRows]
    /\ opc' = [opc EXCEPT ![r] = "done"]
    /\ UNCHANGED <<db, ovals, otask, oresult, olog>>

OverlapStep(r) ==
    \/ OverlapBegin(r)
    \/ OverlapStoreDe(r)
    \/ OverlapStoreEn(r)
    \/ OverlapCommit(r)
    \/ OverlapDrop(r)

NextOverlap ==
    /\ \E r \in Runs : OverlapStep(r)
    /\ UNCHANGED <<txw, txOpen, pc, snapshot, index, vals, task, result, log,
                   pre, lastSnap, runs, aborted>>
    /\ UNCHANGED <<callVars, statusVars, routeVars, tokenVars, calendarVars>>

SpecOverlap == InitOverlap /\ [][NextOverlap]_vars

\* the keys of the tasks of run r
TaskKeys(r) == {ovals[r][i].key : i \in DOMAIN ovals[r]}

\* the statements of the two runs were interleaved
Interleaved ==
    \E p, q, u \in DOMAIN olog :
        p < q /\ q < u /\ olog[p].run = olog[u].run /\ olog[q].run # olog[p].run

-----------------------------------------------------------------------------
(* calendar_handler.  Timestamps are days; a text built with format! is the  *)
(* sequence of its pieces.                                                   *)

MaxDay == 4

\* a row of table calendar
XMLEvent(k, n, from, to, scraped, single, type, name) ==
    [key |-> k, single_event_id |-> n, event_title |-> "Analysis 1",
     dtstart |-> from, dtend |-> to, last_scrape |-> scraped,
     single_event_type_id |-> single, single_event_type_name |-> "Abhaltung",
     event_type_id |-> type, event_type_name |-> name,
     course_type_name |-> <<"Vorlesung">>]

\* table calendar: four events of mw123; table rooms: mw123 and mi456
CalendarStore ==
    [calendar |-> <<XMLEvent("mw123", 1, 1, 2, 9, "AB", "LV", <<>>),
                    XMLEvent("mw123", 2, 2, 3, 8, "PT", "LV", <<>>),
                    XMLEvent("mw123", 3, 3, 3, 7, "SPERRE", "XX", <<>>),
                    XMLEvent("mw123", 4, 0, 1, 6, "AB", "XX", <<"Sonstiges">>)>>,
     rooms |-> [k \in {"mw123", "mi456"} |->
                    [tumonline_calendar_id |-> IF k = "mw123" THEN 5510 ELSE 2301]]]

\* EventType::from: <<entry_type, detailed_entry_type>>
EventTypeFrom(e) ==
    LET course_type_name ==
            IF e.course_type_name = <<>> THEN <<"Course type is unknown">>
            ELSE e.course_type_name
    IN  IF e.single_event_type_id = "SPERRE" THEN <<"barred", <<>>>>
        ELSE IF e.single_event_type_id = "PT" THEN <<"exam", <<>>>>
        ELSE IF e.single_event_type_id = "P" THEN <<"lecture", course_type_name>>
        ELSE IF e.event_type_id = "LV" THEN <<"lecture", course_type_name>>
        ELSE IF e.event_type_id = "PT" THEN <<"exam", <<>>>>
        ELSE IF e.event_type_id = "EX" THEN <<"exercise", <<>>>>
        ELSE IF e.event_type_name # <<>>
        THEN <<"other", <<e.single_event_type_name, ": ">> \o e.event_type_name>>
        ELSE <<"other", <<e.single_event_type_name>>>>

\* impl From<XMLEvent> for Event
EventFrom(e) ==
    [id |-> e.single_event_id,
     title |-> e.event_title,
     start |-> e.dtstart,
     end |-> e.dtend,
     entry_type |-> EventTypeFrom(e)[1],
     detailed_entry_type |-> EventTypeFrom(e)[2]]

\* get_entries: the rows of the key that start at or after start and end
\* at or before end, or the error of the query
GetEntries(requested_key, args, ok) ==
    IF ~ ok THEN [tag |-> "Err", rows |-> <<>>, url |-> <<>>]
    ELSE [tag |-> "Ok",
          rows |-> SelectSeq(cdb.calendar,
                             LAMBDA e : /\ e.key = requested_key
                                        /\ e.dtstart >= args.start
                                        /\ e.dtend <= args.end),
          url |-> <<>>]

\* get_calendar_url: first() of the room, NotFound when there is none
GetCalendarUrl(requested_key, ok) ==
    IF ~ ok \/ requested_key \notin DOMAIN cdb.rooms
    THEN [tag |-> "Err", rows |-> <<>>, url |-> <<>>]
    ELSE [tag |-> "Ok", rows |-> <<>>,
          url |-> <<"https://campus.tum.de/tumonline/wbKalender.wbRessource?pResNr=",
                    cdb.rooms[requested_key].tumonline_calendar_id>>]

\* results.iter().map(|e| e.last_scrape).min(): <<>> is None
MinLastScrape(rows) ==
    IF rows = <<>> THEN <<>>
    ELSE <<CHOOSE m \in {rows[i].last_scrape : i \in DOMAIN rows} :
               \A i \in DOMAIN rows : m <= rows[i].last_scrape>>

ErrorLoadingCalendar ==
    [status |-> 500, body |-> "Error loading calendar", events |-> <<>>,
     last_sync |-> 0, calendar_url |-> <<>>]

\* the handler panicked: the request has no response of calendar_handler
Panicked ==
    [status |-> 0, body |-> "panicked: called Option::unwrap() on a None value",
     events |-> <<>>, last_sync |-> 0, calendar_url |-> <<>>]

InitCalendar ==
    /\ InitPipe
    /\ value = Null
    /\ language = "de"
    /\ ret = Null
    /\ dv = NoDv
    /\ dpc = "none"
    /\ StatusIdle
    /\ RouteIdle
    /\ TokensIdle
    /\ OverlapIdle
    /\ cdb = CalendarStore
    /\ cargs \in {a \in [id : {"mw123", "mi456", "nokey"},
                         start : 0..MaxDay, end : 0..MaxDay] : a.start <= a.end}
    /\ cresults = NoQueryResult
    /\ curl = NoQueryResult
    /\ cresp = NoCalendarResponse
    /\ cpc = "connect"

\* let conn = &mut utils::establish_connection();
CalendarConnect ==
    /\ cpc = "connect"
    /\ cpc' = "entries"
    /\ UNCHANGED <<cdb, cargs, cresults, curl, cresp>>

\* let results = get_entries(&id, args, conn);
CalendarEntries ==
    /\ cpc = "entries"
    /\ \E ok \in BOOLEAN : cresults' = GetEntries(cargs.id, cargs, ok)
    /\ cpc' = "url"
    /\ UNCHANGED <<cdb, cargs, curl, cresp>>

\* let calendar_url = get_calendar_url(&id, conn);
CalendarUrl ==
    /\ cpc = "url"
    /\ \E ok \in BOOLEAN : curl' = GetCalendarUrl(cargs.id, ok)
    /\ cpc' = "match"
    /\ UNCHANGED <<cdb, cargs, cresults, cresp>>

\* the match on (results, calendar_url)
CalendarMatch ==
    /\ cpc = "match"
    /\ cresp' =
          IF cresults.tag = "Ok" /\ curl.tag = "Ok"
          THEN IF MinLastScrape(cresults.rows) = <<>>
               THEN Panicked
               ELSE [status |-> 200, body |-> "json",
                     events |-> [i \in DOMAIN cresults.rows |->
                                     EventFrom(cresults.rows[i])],
                     last_sync |-> MinLastScrape(cresults.rows)[1],
                     calendar_url |-> curl.url]
          ELSE ErrorLoadingCalendar
    /\ cpc' = "returned"
    /\ UNCHANGED <<cdb, cargs, cresults, curl>>

NextCalendar ==
    /\ \/ CalendarConnect
       \/ CalendarEntries
       \/ CalendarUrl
       \/ CalendarMatch
    /\ UNCHANGED <<pipeVars, callVars, statusVars, routeVars, tokenVars,
                   overlapVars>>

SpecCalendar == InitCalendar /\ [][NextCalendar]_vars

-----------------------------------------------------------------------------
(* Helpers of the properties *)

\* the run was over the snapshot of the committed runs right before it
Unchanged == lastSnap # <<>> /\ lastSnap[1] = snapshot

\* the step is the successful commit of the run
Committing == pc = "loaded" /\ result' = "Ok"

\* the run ended where the loop of download_updates met a row without "id"
ReachedRowWithoutId ==
    /\ pc \in {"failed", "done"}
    /\ result \notin {"NetworkError", "IoError", "panic_unwrap"}
    /\ index < Len(snapshot)
    /\ "id" \notin DOMAIN snapshot[index + 1]

DownloadFailures ==
    {"NetworkError", "IoError", "DecodeError", "panic_unwrap", "panic_expect"}

\* the store a single successful run over snap produces from store
SuccessfulRun(store, snap) ==
    StoreAll(store, [i \in DOMAIN snap |-> From(snap[i])])

-----------------------------------------------------------------------------
\* C1: Fail-fast batch: when the write of a record fails, load_all_to_db
\* returns the error at once (the failed statement is the last one issued),
\* and once the transaction is dropped without commit the de and en
\* collections are exactly what they were before the run.
C1_FailFastBatch ==
    WriteFailed =>
        /\ pc \in {"failed", "done"}
        /\ result = "StorageError"
        /\ \A i \in DOMAIN log : ~ log[i].ok => i = Len(log)
        /\ pc = "done" => (~ txOpen /\ db = pre)

\* record 2 of the snapshot failed after record 1, new to the store, was written
C1_Witness ==
    /\ pc = "done"
    /\ WriteFailed
    /\ Len(log) >= 3
    /\ log[1].key \notin DOMAIN pre.de
    /\ db = pre

\* C2: Idempotence: a committed run over the snapshot that the committed run
\* before it was over leaves the de and en collections as they were.
C2_Idempotence ==
    [][(Committing /\ Unchanged) => db' = db]_vars

\* the second committed run over one snapshot of two records
C2_Witness ==
    /\ pc = "done"
    /\ result = "Ok"
    /\ Len(lastSnap) = 2
    /\ Len(snapshot) = 2
    /\ db = pre
    /\ DOMAIN db.de # {}

\* C3 as stated: after a run that commits, the keys of de, the keys of en and
\* the ids of the fetched snapshot are the same set, whatever earlier runs
\* left in the store.
C3_KeySetEqualsSnapshot ==
    (pc = "done" /\ result = "Ok") =>
        /\ DOMAIN db.de = Ids(snapshot)
        /\ DOMAIN db.en = Ids(snapshot)

\* C3 amended: after a run that commits, the keys of de equal the keys of en
\* and are the ids of the fetched snapshot together with the keys the store
\* held before the run.
C3_KeySetConsistency ==
    (pc = "done" /\ result = "Ok") =>
        /\ DOMAIN db.de = DOMAIN db.en
        /\ DOMAIN db.de = DOMAIN pre.de \cup Ids(snapshot)

\* a committed run over a snapshot that lacks a key of an earlier snapshot
C3_Witness ==
    /\ pc = "done"
    /\ result = "Ok"
    /\ Ids(snapshot) # {}
    /\ ~ (DOMAIN pre.de \subseteq Ids(snapshot))
    /\ ~ (Ids(snapshot) \subseteq DOMAIN pre.de)

\* C4: Locale isolation: for every LocaleObject occurring in a record at any
\* nesting depth (also inside the "de" or "en" value of another LocaleObject)
\* whose "de" and "en" values are distinct, the de projection built by from
\* does not contain the "en" value and the en projection does not contain
\* the "de" value.
C4_LocaleIsolation ==
    dpc = "from" =>
        \A L \in SubValues(Obj(RawRecord("mw123", 7, value))) :
            (IsObj(L) /\ {"de", "en"} \subseteq DOMAIN L.o /\ L.o["de"] # L.o["en"])
            => /\ ~ Contains(dv.de, L.o["en"])
               /\ ~ Contains(dv.en, L.o["de"])

\* C5: Default substitution: delocalise of a mapping that has key "de" or
\* key "en" but lacks the requested language key returns the empty string.
C5_DefaultSubstitution ==
    (dpc = "delocalised" /\ IsLocaleObject(value)
        /\ language \notin DOMAIN value.o)
    => ret = Str("")

\* delocalise(.., "en") of a mapping that has key "de" only
C5_Witness ==
    /\ dpc = "delocalised"
    /\ IsLocaleObject(value)
    /\ language = "en"
    /\ DOMAIN value.o = {"de"}
    /\ ret = Str("")

\* C6: a snapshot with a record without "id" makes the run fail with a
\* DecodeError, an error value the run returns, and the de and en collections
\* are unchanged.
C6_MissingIdDecodeError ==
    ReachedRowWithoutId => (result = "DecodeError" /\ db = pre)

\* C7: Fetch-before-write: a statement is issued only after the whole snapshot
\* was fetched and every record decoded and decomposed; a run that ends in a
\* network failure, a non-success status, a decode failure or a panic of
\* download_updates has issued no statement.
C7_FetchBeforeWrite ==
    /\ (log # <<>> \/ txw # NoRows) =>
        /\ pc \in {"store_de", "store_en", "loaded", "failed", "done"}
        /\ index = Len(snapshot)
        /\ Len(vals) = Len(snapshot)
    /\ result \in DownloadFailures => (log = <<>> /\ txw = NoRows)

\* the first statement of a run over two records
C7_Witness ==
    /\ pc = "store_en"
    /\ Len(log) = 1
    /\ Len(snapshot) = 2
    /\ Len(vals) = 2

\* C8 as stated: for every record passed to store both statements, on de and
\* on en, are attempted, also when the one on de fails.
C8_BothAttempted ==
    pc # "store_en" =>
        \A i \in DOMAIN log :
            log[i].table = "de" =>
                /\ i + 1 \in DOMAIN log
                /\ log[i + 1].table = "en"
                /\ log[i + 1].key = log[i].key

\* C8 amended: for every record passed to store the statement on de is
\* attempted first; the statement on en is attempted exactly when the one on
\* de succeeded; when the one on de fails, store returns the error and no
\* further statement is issued.
C8_EnAfterDeSucceeded ==
    /\ pc # "store_en" =>
        \A i \in DOMAIN log :
            log[i].table = "de" =>
                IF log[i].ok
                THEN /\ i + 1 \in DOMAIN log
                     /\ log[i + 1].table = "en"
                     /\ log[i + 1].key = log[i].key
                ELSE /\ i = Len(log)
                     /\ result = "StorageError"
                     /\ pc \in {"failed", "done"}
    /\ \A i \in DOMAIN log :
        log[i].table = "en" =>
            /\ i > 1
            /\ log[i - 1] = [key |-> log[i].key, table |-> "de", ok |-> TRUE]

\* the statement on de of the second record failed: three statements in all
C8_Witness ==
    /\ pc = "failed"
    /\ Len(log) = 3
    /\ log[3].table = "de"
    /\ ~ log[3].ok

\* C9: Upsert overwrites whole rows: after store succeeded for a record with
\* key k and hash h, the de row of k is exactly (de projection, h) and the en
\* row of k exactly the en projection, whatever the rows held before; the
\* hash is on the de row only.
C9_UpsertWholeRow ==
    (pc \in {"store_de", "loaded"} /\ task > 1) =>
        /\ View.de[vals[task - 1].key] =
               [data |-> vals[task - 1].de, hash |-> vals[task - 1].hash]
        /\ View.en[vals[task - 1].key] = [data |-> vals[task - 1].en]

\* store overwrote a committed row of another payload and hash
C9_Witness ==
    /\ pc \in {"store_de", "loaded"}
    /\ task > 1
    /\ vals[task - 1].key \in DOMAIN pre.de
    /\ pre.de[vals[task - 1].key].hash # vals[task - 1].hash
    /\ pre.de[vals[task - 1].key].data # vals[task - 1].de
    /\ View.de[vals[task - 1].key].hash = vals[task - 1].hash

\* C10: Readers keep the last synchronized state: while a run's transaction
\* is open the de and en collections are the rows the last committed run
\* left; the rows of a run become visible all at once in the step that
\* commits; no other step, so no failed run, changes the collections.
C10_ReadersKeepLastSync ==
    [][/\ txOpen => db = pre
       /\ IF Committing
          THEN db' = [de |-> Over(pre.de, txw.de), en |-> Over(pre.en, txw.en)]
          ELSE db' = db]_vars

\* a run has written both rows of two records, none visible yet
C10_Witness ==
    /\ pc = "loaded"
    /\ Cardinality(DOMAIN txw.de) = 2
    /\ View # db
    /\ db = pre
    /\ DOMAIN db.de # {}

\* C11: Convergence by rerun: when a run was aborted by a storage error and
\* a later run over snapshot S commits, the store after that run is the store
\* a single successful run over S produces from the store before the aborted
\* run; nothing of the aborted run remains.
C11_ConvergenceByRerun ==
    (pc = "done" /\ result = "Ok" /\ aborted # <<>>) =>
        db = SuccessfulRun(aborted[1].store, snapshot)

\* the aborted run had written rows, the later run commits a snapshot that
\* changes the store
C11_Witness ==
    /\ pc = "done"
    /\ result = "Ok"
    /\ aborted # <<>>
    /\ aborted[1].wrote
    /\ db # aborted[1].store
    /\ db = SuccessfulRun(aborted[1].store, snapshot)

\* C12: Accretive store: no step of any run, successful or failed, removes a
\* key from the de or the en collection, and the row of a key that the
\* run's snapshot does not contain keeps its payload and hash.
C12_AccretiveStore ==
    [][/\ \A k \in DOMAIN db.de :
            /\ k \in DOMAIN db'.de
            /\ k \notin Ids(snapshot) => db'.de[k] = db.de[k]
       /\ \A k \in DOMAIN db.en :
            /\ k \in DOMAIN db'.en
            /\ k \notin Ids(snapshot) => db'.en[k] = db.en[k]]_vars

\* a committed run whose snapshot lacks a key of the store: the row is kept
C12_Witness ==
    /\ pc = "done"
    /\ result = "Ok"
    /\ db # pre
    /\ \E k \in DOMAIN pre.de \cap DOMAIN pre.en :
        /\ k \notin Ids(snapshot)
        /\ db.de[k] = pre.de[k]
        /\ db.en[k] = pre.en[k]

\* C19: Within one run the writes are issued in snapshot order, one at a
\* time: statement number p of the run is the write of record (p+1) div 2
\* of the snapshot, on de when p is odd and on en when p is even, and only
\* the last statement issued can have failed (so both writes of record i are
\* complete before the first write of record j > i starts); when the run
\* commits, the rows of a key are the values of the last snapshot record
\* that carries the key.
C19_SnapshotOrder ==
    /\ \A p \in DOMAIN log :
        LET i == (p + 1) \div 2 IN
        /\ i <= Len(snapshot)
        /\ ~ FromPanics(snapshot[i])
        /\ log[p].key = From(snapshot[i]).key
        /\ log[p].table = IF p % 2 = 1 THEN "de" ELSE "en"
        /\ p < Len(log) => log[p].ok
    /\ (pc = "done" /\ result = "Ok") =>
        \A i \in DOMAIN snapshot :
            (\A j \in DOMAIN snapshot : j > i => snapshot[j]["id"] # snapshot[i]["id"])
            => /\ db.de[From(snapshot[i]).key] =
                      [data |-> From(snapshot[i]).de, hash |-> From(snapshot[i]).hash]
               /\ db.en[From(snapshot[i]).key] = [data |-> From(snapshot[i]).en]

\* a committed run over two records of one key with different values
C19_Witness ==
    /\ pc = "done"
    /\ result = "Ok"
    /\ Len(snapshot) = 2
    /\ Len(log) = 4
    /\ snapshot[1]["id"] = snapshot[2]["id"]
    /\ snapshot[1] # snapshot[2]
    /\ db.de[snapshot[2]["id"].s].hash = snapshot[2]["hash"].n

\* C17: LocaleObject collapse recurses: for a mapping with key "de" or "en"
\* in which the requested language is present, delocalise(value, lang) equals
\* delocalise applied to value[lang].
C17_CollapseRecurses ==
    (dpc = "delocalised" /\ IsLocaleObject(value) /\ language \in DOMAIN value.o)
        => ret = delocalise(value.o[language], language)

\* C18: For a mapping with neither key "de" nor key "en", delocalise returns
\* a mapping with exactly the same key set, each key mapped to delocalise of
\* its original value; a scalar is returned unchanged.
C18_PlainMappingKeepsKeys ==
    dpc = "delocalised" =>
        /\ (IsObj(value) /\ ~ IsLocaleObject(value)) =>
              /\ IsObj(ret)
              /\ DOMAIN ret.o = DOMAIN value.o
              /\ \A k \in DOMAIN value.o :
                    ret.o[k] = delocalise(value.o[k], language)
        /\ (~ IsObj(value) /\ ~ IsArr(value)) => ret = value

\* a two-field mapping one field of which is a LocaleObject without the
\* requested language: both fields are kept
C18_Witness ==
    /\ dpc = "delocalised"
    /\ IsObj(value)
    /\ DOMAIN value.o = {"name", "floor"}
    /\ IsLocaleObject(value.o["name"])
    /\ language \notin DOMAIN value.o["name"].o
    /\ DOMAIN ret.o = {"name", "floor"}
    /\ ret.o["name"] = Str("")
    /\ ret.o["floor"] = Num(2)

\* C13: download_status returns, for a status snapshot whose rows are
\* (id, hash) pairs, the sequence of exactly those pairs in row order: each
\* element pairs a row's id string with that same row's hash value.
C13_StatusPairs ==
    (spc = "returned" /\ IsStatusSnapshot(sdf)) =>
        /\ sret.ok
        /\ sret.tasks = [i \in DOMAIN sdf["id"].vals |->
                             <<sdf["id"].vals[i].s, sdf["hash"].vals[i].n>>]

\* C15: route_handler requests the route between the coordinates resolved
\* from the request's `from` location (origin) and the coordinates resolved
\* from the request's `to` location (destination), for every pair of
\* requested locations: every request sent to Valhalla has these two
\* locations, in this order.
C15_RouteFromTo ==
    \A i \in DOMAIN rreq :
        /\ HasCoordinates(rargs.from)
        /\ HasCoordinates(rargs.to)
        /\ rreq[i] = <<Location(CoordinatesOf(rargs.from)),
                       Location(CoordinatesOf(rargs.to))>>

\* C16: route_handler answers 404 "Not found" whenever the origin `from` or
\* the destination `to` is a key that has no row with coordinates in the
\* store (and the lookups themselves did not fail), and no routing request
\* is sent in that case.
C16_NotFound ==
    (/\ rpc = "returned"
     /\ ~ HasCoordinates(rargs.from) \/ ~ HasCoordinates(rargs.to)
     /\ rfrom.tag # "Err"
     /\ rto.tag # "Err")
        => /\ rresp = [status |-> 404, body |-> "Not found"]
           /\ rreq = <<>>

\* C14: Anti-replay: over any sequence and any interleaving of
\* validate_token calls on one server instance, a token (identified by its
\* kid) that was accepted once (validate_token returned None) is never
\* accepted again.
C14_AntiReplay ==
    replayed = {}

\* C20: Overlapping runs: when two runs, each in its own transaction,
\* interleave their writes over snapshots that share a key k and both
\* commit, the de row and the en row of k in the final store come from the
\* same run's record.
C20_OverlapSameRun ==
    (oresult = <<"Ok", "Ok">>) =>
        \A k \in TaskKeys(1) \cap TaskKeys(2) :
            \E r \in Runs : \E i \in DOMAIN ovals[r] :
                /\ ovals[r][i].key = k
                /\ db.de[k] = [data |-> ovals[r][i].de, hash |-> ovals[r][i].hash]
                /\ db.en[k] = [data |-> ovals[r][i].en]

\* both runs committed, their statements interleaved, and they share a key
C20_Witness ==
    /\ oresult = <<"Ok", "Ok">>
    /\ Interleaved
    /\ TaskKeys(1) \cap TaskKeys(2) # {}
    /\ \E k \in TaskKeys(1) \cap TaskKeys(2) : db.de[k].hash = Version(1).hash

\* C21: Token time window: a token issued by Claims::new at time t is
\* rejected with 403 when it is presented before t + TOKEN_MIN_AGE or after
\* t + TOKEN_MAX_AGE, and no entry is added to token_record; only a token
\* presented inside that window gets past the decoding to the check of
\* token_record, where it can be accepted.
C21_TokenTimeWindow ==
    [][\A c \in {1, 2} :
         (vcall[c].pc = "idle" /\ vcall'[c].pc = "decoded") =>
             /\ clock >= vcall'[c].tok.iat + TOKEN_MIN_AGE
             /\ clock <= vcall'[c].tok.iat + TOKEN_MAX_AGE]_vars

\* C22: Invariant of token_record: after every step of every interleaving of
\* validate_token calls token_record holds at most one entry per kid, and a
\* step adds an entry only when it is the return of an accepting call (None);
\* the calls answered 503 or 403 add none.
C22_TokenRecord ==
    [][/\ \A i, j \in DOMAIN token_record' :
            token_record'[i].kid = token_record'[j].kid => i = j
       /\ (\E i \in DOMAIN token_record' :
               \A j \in DOMAIN token_record : token_record'[i] # token_record[j])
            => /\ vresp'.resp = Accepted
               /\ \E c \in {1, 2} :
                    /\ vcall[c].pc = "decoded"
                    /\ vcall'[c] = IdleCall
                    /\ vresp'.tok = vcall[c].tok
                    /\ Len(token_record') <= Len(token_record) + 1]_vars

\* the token was accepted, then presented again and answered "Token already
\* used."; its kid has its one entry
C22_Witness ==
    /\ vresp.resp = Forbidden("Token already used.")
    /\ vresp.tok \in accepted
    /\ Len(token_record) = 1
    /\ token_record[1].kid = vresp.tok.kid

\* C23: calendar_handler answers 200 with the event list, last_sync and
\* calendar_url whenever both the entries query and the calendar-url query
\* succeed, including when the entries query returns no event for the
\* requested id and time range; it never fails outside its two 500 branches.
C23_CalendarAnswers ==
    cpc = "returned" =>
        /\ cresp.status \in {200, 500}
        /\ (cresults.tag = "Ok" /\ curl.tag = "Ok") =>
              /\ cresp.status = 200
              /\ cresp.events = [i \in DOMAIN cresults.rows |->
                                     EventFrom(cresults.rows[i])]
              /\ cresp.calendar_url = curl.url

=============================================================================
